---- MODULE Spec2Model ----
(***************************************************************************)
(* A model of srtparse: the Subtitle aggregate with its blocks, change     *)
(* log and undo (modules/subtitle.py, modules/block.py,                    *)
(* modules/eventpublisher.py), the SubRip parser (Subtitle.parse_file and  *)
(* Subtitle.parse_line) and the Timestamp value type (models/timestamp.py).*)
(*                                                                         *)
(* Python objects live in `heap`: a Block instance is a position of heap,  *)
(* so two blocks with the same fields are still two objects.  NoneRef is   *)
(* Python's None.  A str is a sequence of one-character strings.           *)
(***************************************************************************)
EXTENDS Integers, Sequences, FiniteSets, TLC

VARIABLES
    heap,           \* the Block instances: heap[b] holds the fields of object b
    blocks,         \* Subtitle._blocks, a list of references
    mementos,       \* Subtitle._mementos, the change log
    last,           \* the last call made on the aggregate and how it ended
    snaps,          \* history: snaps[i+1] is the state in which the log last grew to i entries
    lines,          \* parse_file: the lines of the file the loop has read
    last_line,      \* parse_file: last_line, the number of lines of the file less one
    index,          \* parse_file: index of the line the loop reads next
    prev_state,     \* parse_file: prev_state
    block_builder,  \* parse_file: the BlockBuilder in use
    pstat,          \* parse_file: not called, running, returned, or the exception it raised
    first,          \* the file parsed before this one by another Subtitle, and what came of it
    classified,     \* a line handed to parse_line on its own, and what parse_line made of it
    tbuilder,       \* a TimestampBuilder
    ts,             \* a Timestamp
    tlast,          \* the last call made on tb or ts and how it ended
    ncalls,         \* the number of calls made on ts
    subscribers,    \* BlockEventPublisher._subscribers of a publisher of its own
    received,       \* what each subscriber of that publisher has been called with
    pubhist         \* the calls made on that publisher, in order

vars == <<heap, blocks, mementos, last, snaps, lines, last_line, index, prev_state, block_builder, pstat,
          first, classified, tbuilder, ts, tlast, ncalls, subscribers, received, pubhist>>
svars == <<heap, blocks, mementos, last, snaps>>
pvars == <<lines, last_line, index, prev_state, block_builder, pstat, first, classified>>
tvars == <<tbuilder, ts, tlast, ncalls>>
evars == <<subscribers, received, pubhist>>

-----------------------------------------------------------------------------
(* Bounds of the model. *)

MaxLog == 3         \* longest change log explored

NoneRef == 0        \* Python's None, where a reference to a Block is expected

MaxLines == 8       \* longest file parsed

MaxCalls == 2       \* most arithmetic calls made on one Timestamp

MaxPubCalls == 5    \* most calls made on a publisher of its own

MaxChars == 3       \* most characters, the newline apart, of a short line given to parse_line

Objs == {1, 2}      \* the Block instances the client constructs
Ids == {1, 2}       \* the ids the client uses

-----------------------------------------------------------------------------
(* Timestamp (models/timestamp.py) *)

Timestamp(h, m, s, ms) == [hours |-> h, minutes |-> m, seconds |-> s, milliseconds |-> ms]

\* Timestamp.__hash__: hash of a small int is the int itself
TimestampHash(t) == t.hours + t.minutes + t.seconds + t.milliseconds

\* Timestamp.__eq__
TimestampEq(a, b) == TimestampHash(a) = TimestampHash(b)

\* compare by the sum of the fields, the way __eq__ does
compare_sums(a, b) ==
    IF TimestampHash(a) > TimestampHash(b) THEN 1
    ELSE IF TimestampHash(a) < TimestampHash(b) THEN -1
    ELSE 0

\* Timestamp.compare
compare(a, b) ==
    IF a.hours > b.hours THEN 1
    ELSE IF a.hours < b.hours THEN -1
    ELSE IF a.minutes > b.minutes THEN 1
    ELSE IF a.minutes < b.minutes THEN -1
    ELSE IF a.seconds > b.seconds THEN 1
    ELSE IF a.seconds < b.seconds THEN -1
    ELSE IF a.milliseconds > b.milliseconds THEN 1
    ELSE IF a.milliseconds < b.milliseconds THEN -1
    ELSE 0

TimestampLt(a, b) == compare(a, b) < 0

\* The timestamps the client and the input files use.
TimeVals == {Timestamp(0, 0, 0, 0), Timestamp(0, 0, 0, 1)}

-----------------------------------------------------------------------------
(* Block and its events (modules/block.py) *)

\* Block.__init__: the four fields are stored without an event
Block(id, starttime, endtime, text) ==
    [id |-> id, starttime |-> starttime, endtime |-> endtime, text |-> text]

RECURSIVE Join(_)
\* '\n'.join(self._text)
Join(text) ==
    IF text = <<>> THEN <<>>
    ELSE IF Len(text) = 1 THEN text[1]
    ELSE text[1] \o <<"\n">> \o Join(Tail(text))

\* Block.__hash__: hash(id) + hash(starttime) + hash(endtime) + hash(joined text).
\* The first three summands are small integers and add up in num.  The hash
\* of a str is a 64-bit value that differs between different strings and is
\* not offset by a small integer, so that summand is kept as the string.
BlockHash(r) ==
    [num |-> r.id + TimestampHash(r.starttime) + TimestampHash(r.endtime),
     str |-> Join(r.text)]

\* Block.__eq__
BlockEq(r1, r2) == BlockHash(r1) = BlockHash(r2)

\* Block.__lt__
BlockLt(r1, r2) ==
    TimestampLt(r1.starttime, r2.starttime) /\ TimestampLt(r1.endtime, r2.endtime)

\* x == y as list.__contains__ and list.remove evaluate it on two references:
\* the same object, or Block.__eq__; None equals only None
RefEq(h, x, y) ==
    \/ x = y
    \/ x # NoneRef /\ y # NoneRef /\ BlockEq(h[x], h[y])

\* BlockField of the attribute written
BlockField(name) ==
    CASE name = "id" -> "ID"
      [] name = "starttime" -> "STARTTIME"
      [] name = "endtime" -> "ENDTIME"
      [] name = "_text" -> "TEXT"

\* getattr(self, name)
GetField(r, field) ==
    CASE field = "ID" -> r.id
      [] field = "STARTTIME" -> r.starttime
      [] field = "ENDTIME" -> r.endtime
      [] field = "TEXT" -> r.text

\* object.__setattr__(block, name, value)
SetField(r, field, value) ==
    CASE field = "ID" -> [r EXCEPT !.id = value]
      [] field = "STARTTIME" -> [r EXCEPT !.starttime = value]
      [] field = "ENDTIME" -> [r EXCEPT !.endtime = value]
      [] field = "TEXT" -> [r EXCEPT !.text = value]

\* BlockUpdatedEvent: old_value is kept under its field tag, the values of
\* different fields being of different Python types
BlockUpdatedEvent(b, field, old_value) ==
    [event_type |-> "BLOCK_UPDATED", block |-> b, field |-> field,
     old_value |-> [f \in {field} |-> old_value]]

BlockAddedEvent(b) == [event_type |-> "BLOCK_ADDED", block |-> b]

BlockRemovedEvent(b) == [event_type |-> "BLOCK_DELETED", block |-> b]

-----------------------------------------------------------------------------
(* BlockEventPublisher (modules/eventpublisher.py) and Subtitle.handle_event *)

\* Subtitle.handle_event
handle_event(log, event) == Append(log, event)

\* BlockEventPublisher.publish: the Subtitle is the one subscriber
publish(log, event) == handle_event(log, event)

\* __setattr__, were the event to carry the value written instead of the
\* value replaced
setattr_new_value(h, log, b, name, value) ==
    LET field == BlockField(name)
    IN [heap |-> [h EXCEPT ![b] = SetField(@, field, value)],
        mementos |-> publish(log, BlockUpdatedEvent(b, field, value))]

\* __setattr__, were a write of the value the field holds already to publish
\* nothing
setattr_skips_equal(h, log, b, name, value) ==
    LET field == BlockField(name)
        cur_value == GetField(h[b], field)
    IN [heap |-> [h EXCEPT ![b] = SetField(@, field, value)],
        mementos |-> IF cur_value = value THEN log
                     ELSE publish(log, BlockUpdatedEvent(b, field, cur_value))]

\* Block.__setattr__ for id, starttime, endtime and _text: the current value
\* is never None here, so the event is published, then the value is stored
setattr(h, log, b, name, value) ==
    LET field == BlockField(name)
        cur_value == GetField(h[b], field)
    IN [heap |-> [h EXCEPT ![b] = SetField(@, field, value)],
        mementos |-> publish(log, BlockUpdatedEvent(b, field, cur_value))]

\* add_line, were it to append to the list the block holds instead of to a
\* copy: the event then carries that same list, and so does every event
\* logged for the text of the block that still holds it
add_line_in_place(h, log, b, line) ==
    LET text == Append(h[b].text, line)
        held(event) == /\ event.event_type = "BLOCK_UPDATED"
                       /\ event.block = b
                       /\ event.field = "TEXT"
                       /\ event.old_value["TEXT"] = h[b].text
    IN [heap |-> [h EXCEPT ![b].text = text],
        mementos |-> publish([i \in 1..Len(log) |->
                                 IF held(log[i])
                                 THEN BlockUpdatedEvent(b, "TEXT", text)
                                 ELSE log[i]],
                             BlockUpdatedEvent(b, "TEXT", text))]

\* Block.add_line
add_line(h, log, b, line) == setattr(h, log, b, "_text", Append(h[b].text, line))

-----------------------------------------------------------------------------
(* Subtitle: insert, remove, undo, reset (modules/subtitle.py) *)

\* block in self._blocks
Contains(h, bl, b) == \E i \in 1..Len(bl) : RefEq(h, bl[i], b)

\* self._blocks.remove(block): the first element equal to block goes
ListRemove(h, bl, b) ==
    LET i == CHOOSE k \in 1..Len(bl) :
                 RefEq(h, bl[k], b) /\ \A j \in 1..(k - 1) : ~RefEq(h, bl[j], b)
    IN SubSeq(bl, 1, i - 1) \o SubSeq(bl, i + 1, Len(bl))

\* insert_block, were it to publish nothing
insert_block_silent(h, bl, log, b) ==
    IF Contains(h, bl, b)
    THEN [blocks |-> bl, mementos |-> log, ret |-> FALSE]
    ELSE [blocks |-> Append(bl, b), mementos |-> log, ret |-> TRUE]

\* Subtitle.insert_block
insert_block(h, bl, log, b) ==
    IF Contains(h, bl, b)
    THEN [blocks |-> bl, mementos |-> log, ret |-> FALSE]
    ELSE [blocks |-> Append(bl, b),
          mementos |-> publish(log, BlockAddedEvent(b)),
          ret |-> TRUE]

\* Subtitle.remove_block
remove_block(h, bl, log, b) ==
    IF Contains(h, bl, b)
    THEN [blocks |-> ListRemove(h, bl, b),
          mementos |-> publish(log, BlockRemovedEvent(b))]
    ELSE [blocks |-> bl, mementos |-> log]

\* Subtitle.undo, the body of the try once pop() has returned `event` and left
\* `rest` in the log; list.remove raises ValueError, which is not caught
revert(h, bl, rest, event) ==
    CASE event.event_type = "BLOCK_UPDATED" ->
           [heap |-> [h EXCEPT ![event.block] =
                         SetField(@, event.field, event.old_value[event.field])],
            blocks |-> bl, mementos |-> rest, exc |-> "none"]
      [] event.event_type = "BLOCK_ADDED" ->
           IF Contains(h, bl, event.block)
           THEN [heap |-> h, blocks |-> ListRemove(h, bl, event.block),
                 mementos |-> rest, exc |-> "none"]
           ELSE [heap |-> h, blocks |-> bl, mementos |-> rest,
                 exc |-> "ValueError"]
      [] event.event_type = "BLOCK_DELETED" ->
           [heap |-> h, blocks |-> Append(bl, event.block),
            mementos |-> rest, exc |-> "none"]

\* undo, were the IndexError of pop() on an empty log not caught
undo_uncaught(h, bl, log) ==
    IF log = <<>>
    THEN [heap |-> h, blocks |-> bl, mementos |-> log, exc |-> "IndexError"]
    ELSE revert(h, bl, SubSeq(log, 1, Len(log) - 1), log[Len(log)])

\* Subtitle.undo: pop() on an empty log raises IndexError, which is caught
undo(h, bl, log) ==
    IF log = <<>>
    THEN [heap |-> h, blocks |-> bl, mementos |-> log, exc |-> "none"]
    ELSE revert(h, bl, SubSeq(log, 1, Len(log) - 1), log[Len(log)])

RECURSIVE reset(_, _, _)
\* Subtitle.reset: while self._mementos: self.undo()
reset(h, bl, log) ==
    IF log = <<>>
    THEN [heap |-> h, blocks |-> bl, mementos |-> log, exc |-> "none"]
    ELSE LET r == undo(h, bl, log)
         IN IF r.exc # "none" THEN r ELSE reset(r.heap, r.blocks, r.mementos)

-----------------------------------------------------------------------------
(* self._blocks.sort() in Subtitle.validate: CPython's list.sort on a list   *)
(* shorter than 64 elements, which compares with Block.__lt__ only: the      *)
(* leading run is counted (and reversed when strictly descending), then the  *)
(* remaining elements are placed by binary insertion.                        *)

RefLt(h, x, y) == BlockLt(h[x], h[y])

RECURSIVE CountRun(_, _, _, _)
\* count_run: the length of the run that starts the list, n elements so far
CountRun(h, a, n, descending) ==
    IF n < Len(a) /\ (RefLt(h, a[n + 1], a[n]) <=> descending)
    THEN CountRun(h, a, n + 1, descending)
    ELSE n

RECURSIVE Reverse(_)
Reverse(a) == IF a = <<>> THEN <<>> ELSE Append(Reverse(Tail(a)), Head(a))

RECURSIVE BinarySearch(_, _, _, _, _)
\* the inner loop of binarysort: l and r count elements from 0
BinarySearch(h, a, pivot, l, r) ==
    IF l >= r THEN l
    ELSE LET p == l + ((r - l) \div 2)
         IN IF RefLt(h, pivot, a[p + 1])
            THEN BinarySearch(h, a, pivot, l, p)
            ELSE BinarySearch(h, a, pivot, p + 1, r)

RECURSIVE BinarySort(_, _, _)
\* binarysort: the first `start` elements are in order already
BinarySort(h, a, start) ==
    IF start >= Len(a) THEN a
    ELSE LET pivot == a[start + 1]
             l == BinarySearch(h, a, pivot, 0, start)
             placed == SubSeq(a, 1, l) \o <<pivot>> \o SubSeq(a, l + 1, start)
                           \o SubSeq(a, start + 2, Len(a))
         IN BinarySort(h, placed, start + 1)

list_sort(h, a) ==
    IF Len(a) < 2 THEN a
    ELSE LET descending == RefLt(h, a[2], a[1])
             n == CountRun(h, a, 2, descending)
             run == IF descending
                    THEN Reverse(SubSeq(a, 1, n)) \o SubSeq(a, n + 1, Len(a))
                    ELSE a
         IN BinarySort(h, run, n)

\* validate, were it to empty the change log
validate_clears_log(h, bl, log, try_fix) ==
    LET sorted == list_sort(h, bl)
    IN [heap |-> h, blocks |-> sorted, mementos |-> <<>>,
        exc |-> IF sorted = <<>> THEN "none" ELSE "AttributeError",
        ret |-> "None"]

\* Subtitle.validate: the list is sorted in place, then the loop reads
\* block.text of the first block; Block has _text and no attribute text, so
\* that read raises AttributeError before any finding is kept or any id is
\* fixed.  On an empty list the loop body never runs and the method falls off
\* its end, returning None.
validate(h, bl, log, try_fix) ==
    LET sorted == list_sort(h, bl)
    IN [heap |-> h, blocks |-> sorted, mementos |-> log,
        exc |-> IF sorted = <<>> THEN "none" ELSE "AttributeError",
        ret |-> "None"]

-----------------------------------------------------------------------------
(* The calls a client makes on a Subtitle and on its blocks *)

\* the lines a client adds with add_line
Lines == {<<"x">>}

Snap(h, bl, log) == [heap |-> h, blocks |-> bl, mementos |-> log]

\* the history after a call that left the state as (h2, bl2, log2): a call that
\* logs an event records the state it leaves; what is undone is forgotten
Track(h2, bl2, log2) ==
    IF Len(log2) > Len(mementos)
    THEN Append(snaps, Snap(h2, bl2, log2))
    ELSE SubSeq(snaps, 1, Len(log2) + 1)

\* a call: the method, the exception that escaped it, the value it returned,
\* the length of the log and the collection when it was made, and the kinds of the events that
\* the undo() calls made in a row up to this one have popped, with the block
\* and the field those events name ("none" for an event that names no field)
Call(op, exc, ret) ==
    [op |-> op, exc |-> exc, ret |-> ret, nlog |-> Len(mementos), held |-> blocks,
     undone |-> IF op = "undo" /\ mementos # <<>>
                THEN Append(last.undone, mementos[Len(mementos)].event_type)
                ELSE <<>>,
     fields |-> IF op = "undo" /\ mementos # <<>>
                THEN Append(last.fields,
                            [block |-> mementos[Len(mementos)].block,
                             field |-> IF mementos[Len(mementos)].event_type = "BLOCK_UPDATED"
                                       THEN mementos[Len(mementos)].field ELSE "none"])
                ELSE <<>>]

\* Subtitle.__init__, and the blocks the client constructs with its publisher
\* (as test_revert does: block b has id b and no text)
InitSubtitle ==
    /\ heap = [b \in Objs |-> Block(b, Timestamp(0, 0, 0, 0), Timestamp(0, 0, 0, 1), <<>>)]
    /\ blocks = <<>>
    /\ mementos = <<>>
    /\ last = [op |-> "__init__", exc |-> "none", ret |-> "None", nlog |-> 0, held |-> <<>>,
               undone |-> <<>>, fields |-> <<>>]
    /\ snaps = <<Snap(heap, <<>>, <<>>)>>

\* None where a Timestamp is expected
NoneTime == [none |-> TRUE]

\* BlockBuilder.__init__
BlockBuilder == [id |-> NoneRef, starttime |-> NoneTime, endtime |-> NoneTime, text |-> <<>>]

\* where parse_file stands: status is "idle" (not called), "running",
\* "done" (returned) or "raised", then with the exception, its message and
\* the number formatted into the message (-1 when there is none)
PStat(status, exc, message, arg) ==
    [status |-> status, exc |-> exc, message |-> message, arg |-> arg]

\* no file has been parsed before
NoFirst == [status |-> "none"]

\* no line has been handed to parse_line on its own
NoLine == [line |-> <<>>, result |-> [exc |-> "not called"]]

\* parse_file has not been called
LoopIdle ==
    /\ first = NoFirst
    /\ lines = <<>>
    /\ last_line = -1
    /\ index = 0
    /\ prev_state = "None"
    /\ block_builder = BlockBuilder
    /\ pstat = PStat("idle", "none", "", -1)

ParseIdle == LoopIdle /\ classified = NoLine

\* no call made on a TimestampBuilder or a Timestamp
NoTimeCall == [op |-> "none", exc |-> "none"]

TimeIdle ==
    /\ tbuilder = NoneTime
    /\ ts = NoneTime
    /\ tlast = NoTimeCall
    /\ ncalls = 0

\* the subscribers whose calls are followed
Subs == {"s1", "s2"}

\* no publisher of its own has been made
PublisherIdle ==
    /\ subscribers = {}
    /\ received = [s \in Subs |-> <<>>]
    /\ pubhist = <<>>

Init == InitSubtitle /\ ParseIdle /\ TimeIdle /\ PublisherIdle

InsertBlock(b) ==
    LET r == insert_block(heap, blocks, mementos, b)
    IN /\ Len(r.mementos) <= MaxLog
       /\ heap' = heap
       /\ blocks' = r.blocks
       /\ mementos' = r.mementos
       /\ last' = Call("insert_block", "none", IF r.ret THEN "True" ELSE "False")
       /\ snaps' = Track(heap, r.blocks, r.mementos)
       /\ UNCHANGED <<pvars, tvars, evars>>

RemoveBlock(b) ==
    LET r == remove_block(heap, blocks, mementos, b)
    IN /\ Len(r.mementos) <= MaxLog
       /\ heap' = heap
       /\ blocks' = r.blocks
       /\ mementos' = r.mementos
       /\ last' = Call("remove_block", "none", "None")
       /\ snaps' = Track(heap, r.blocks, r.mementos)
       /\ UNCHANGED <<pvars, tvars, evars>>

\* block.id = value, block.starttime = value, block.endtime = value
SetAttr(b, name, value) ==
    LET r == setattr(heap, mementos, b, name, value)
    IN /\ Len(r.mementos) <= MaxLog
       /\ heap' = r.heap
       /\ mementos' = r.mementos
       /\ blocks' = blocks
       /\ last' = Call("setattr", "none", "None")
       /\ snaps' = Track(r.heap, blocks, r.mementos)
       /\ UNCHANGED <<pvars, tvars, evars>>

AddLine(b, line) ==
    LET r == add_line(heap, mementos, b, line)
    IN /\ Len(r.mementos) <= MaxLog
       /\ heap' = r.heap
       /\ mementos' = r.mementos
       /\ blocks' = blocks
       /\ last' = Call("add_line", "none", "None")
       /\ snaps' = Track(r.heap, blocks, r.mementos)
       /\ UNCHANGED <<pvars, tvars, evars>>

Undo ==
    LET r == undo(heap, blocks, mementos)
    IN /\ heap' = r.heap
       /\ blocks' = r.blocks
       /\ mementos' = r.mementos
       /\ last' = Call("undo", r.exc, "None")
       /\ snaps' = Track(r.heap, r.blocks, r.mementos)
       /\ UNCHANGED <<pvars, tvars, evars>>

Reset ==
    LET r == reset(heap, blocks, mementos)
    IN /\ heap' = r.heap
       /\ blocks' = r.blocks
       /\ mementos' = r.mementos
       /\ last' = Call("reset", r.exc, "None")
       /\ snaps' = Track(r.heap, r.blocks, r.mementos)
       /\ UNCHANGED <<pvars, tvars, evars>>

Validate(try_fix) ==
    LET r == validate(heap, blocks, mementos, try_fix)
    IN /\ heap' = r.heap
       /\ blocks' = r.blocks
       /\ mementos' = r.mementos
       /\ last' = Call("validate", r.exc, r.ret)
       /\ snaps' = Track(r.heap, r.blocks, r.mementos)
       /\ UNCHANGED <<pvars, tvars, evars>>

\* an exception that escapes a call is not caught by the client: the run ends
Running == last.exc = "none"

Next ==
    \/ \E b \in Objs : Running /\ InsertBlock(b)
    \/ \E b \in Objs : Running /\ RemoveBlock(b)
    \/ \E b \in Objs, v \in Ids : Running /\ SetAttr(b, "id", v)
    \/ \E b \in Objs, v \in TimeVals : Running /\ SetAttr(b, "starttime", v)
    \/ \E b \in Objs, v \in TimeVals : Running /\ SetAttr(b, "endtime", v)
    \/ \E b \in Objs, line \in Lines : Running /\ AddLine(b, line)
    \/ Running /\ Undo
    \/ Running /\ Reset
    \/ \E try_fix \in BOOLEAN : Running /\ Validate(try_fix)

Spec == Init /\ [][Next]_vars

-----------------------------------------------------------------------------
(* The line classifier: Subtitle.parse_line and TimestampBuilder.  A line   *)
(* is a sequence of one-character strings.                                  *)

Digits == <<"0", "1", "2", "3", "4", "5", "6", "7", "8", "9">>

\* [0-9]
IsDigit(c) == \E d \in 1..10 : Digits[d] = c

DigitVal(c) == (CHOOSE d \in 1..10 : Digits[d] = c) - 1

\* \s, for the whitespace characters that occur in the model's lines
IsSpace(c) == c \in {" ", "\t", "\n", "\r", "\f"}

RECURSIVE int(_)
\* int(str): the decimal value; whitespace after the digits is skipped
int(str) ==
    IF str = <<>> THEN 0
    ELSE LET front == SubSeq(str, 1, Len(str) - 1)
             c == str[Len(str)]
         IN IF IsSpace(c) THEN int(front) ELSE 10 * int(front) + DigitVal(c)

\* pattern_empty.fullmatch(line): \s*
pattern_empty(line) == \A i \in 1..Len(line) : IsSpace(line[i])

\* pattern_id.fullmatch(line): [0-9]+\n
pattern_id(line) ==
    /\ Len(line) >= 2
    /\ line[Len(line)] = "\n"
    /\ \A i \in 1..(Len(line) - 1) : IsDigit(line[i])

\* pattern_time_detail.fullmatch(str): ([0-9]{2}):([0-9]{2}):([0-9]{2})[.,]([0-9]{3})
pattern_time_detail(str) ==
    /\ Len(str) = 12
    /\ \A i \in {1, 2, 4, 5, 7, 8, 10, 11, 12} : IsDigit(str[i])
    /\ str[3] = ":"
    /\ str[6] = ":"
    /\ str[9] \in {".", ","}

\* pattern_time.fullmatch(line): two such stamps around " --> ", then \s*
pattern_time(line) ==
    /\ Len(line) >= 29
    /\ pattern_time_detail(SubSeq(line, 1, 12))
    /\ SubSeq(line, 13, 17) = <<" ", "-", "-", ">", " ">>
    /\ pattern_time_detail(SubSeq(line, 18, 29))
    /\ \A i \in 30..Len(line) : IsSpace(line[i])

\* TimestampBuilder.__init__; exc is the exception a with_* call has raised
TimestampBuilder ==
    [hours |-> 0, minutes |-> 0, seconds |-> 0, milliseconds |-> 0, exc |-> "none"]

\* TimestampBuilder.with_hours and the others: a call on a builder whose chain
\* has raised already is never made
with_hours(tb, hours) ==
    IF tb.exc # "none" THEN tb
    ELSE IF 0 <= hours /\ hours <= 99 THEN [tb EXCEPT !.hours = hours]
    ELSE [tb EXCEPT !.exc = "InvalidTimeException"]

with_minutes_inclusive(tb, minutes) ==
    IF tb.exc # "none" THEN tb
    ELSE IF 0 <= minutes /\ minutes <= 60 THEN [tb EXCEPT !.minutes = minutes]
    ELSE [tb EXCEPT !.exc = "InvalidTimeException"]

with_minutes(tb, minutes) ==
    IF tb.exc # "none" THEN tb
    ELSE IF 0 <= minutes /\ minutes < 60 THEN [tb EXCEPT !.minutes = minutes]
    ELSE [tb EXCEPT !.exc = "InvalidTimeException"]

with_seconds(tb, seconds) ==
    IF tb.exc # "none" THEN tb
    ELSE IF 0 <= seconds /\ seconds < 60 THEN [tb EXCEPT !.seconds = seconds]
    ELSE [tb EXCEPT !.exc = "InvalidTimeException"]

with_milliseconds(tb, milliseconds) ==
    IF tb.exc # "none" THEN tb
    ELSE IF 0 <= milliseconds /\ milliseconds < 1000
         THEN [tb EXCEPT !.milliseconds = milliseconds]
    ELSE [tb EXCEPT !.exc = "InvalidTimeException"]

\* TimestampBuilder.build
build_timestamp(tb) == Timestamp(tb.hours, tb.minutes, tb.seconds, tb.milliseconds)

\* parse_line, one side of the time line: the four groups go through the builder
parse_timestamp(str) ==
    LET tb == with_milliseconds(
                  with_seconds(
                      with_minutes(
                          with_hours(TimestampBuilder, int(SubSeq(str, 1, 2))),
                          int(SubSeq(str, 4, 5))),
                      int(SubSeq(str, 7, 8))),
                  int(SubSeq(str, 10, 12)))
    IN [exc |-> tb.exc, value |-> build_timestamp(tb)]

Parsed(exc, line_type, line_parsed) ==
    [exc |-> exc, line_type |-> line_type, line_parsed |-> line_parsed]

\* Subtitle.parse_line
parse_line(line) ==
    IF pattern_empty(line) THEN Parsed("none", "EMPTY", NoneRef)
    ELSE IF pattern_id(line) THEN Parsed("none", "ID", int(line))
    ELSE IF pattern_time(line)
    THEN LET starttime == parse_timestamp(SubSeq(line, 1, 12))
             endtime == parse_timestamp(SubSeq(line, 18, 29))
         IN IF starttime.exc # "none" THEN Parsed(starttime.exc, "none", NoneRef)
            ELSE IF endtime.exc # "none" THEN Parsed(endtime.exc, "none", NoneRef)
            ELSE Parsed("none", "TIME", <<starttime.value, endtime.value>>)
    ELSE Parsed("none", "TEXT", SelectSeq(line, LAMBDA c : c # "\n"))

-----------------------------------------------------------------------------
(* Subtitle.parse_file: one step per iteration of its loop *)

\* what an iteration leaves behind
Iter(h, bl, log, state, builder, stat) ==
    [heap |-> h, blocks |-> bl, mementos |-> log, prev_state |-> state,
     block_builder |-> builder, pstat |-> stat]

Raise(message, arg) == PStat("raised", "ParseException", message, arg)

\* BlockBuilder.build: a Block when id, starttime and endtime are all truthy,
\* else the method falls off its end and returns None
build_block(h, builder) ==
    IF builder.id # 0 /\ builder.starttime # NoneTime /\ builder.endtime # NoneTime
    THEN [heap |-> Append(h, Block(builder.id, builder.starttime, builder.endtime,
                                   builder.text)),
          block |-> Len(h) + 1]
    ELSE [heap |-> h, block |-> NoneRef]

\* if not self.insert_block(block_builder.build(self.eventpublisher)): raise ...
\* The iteration goes on in `state` when the block is inserted.
finalize(builder, state) ==
    LET built == build_block(heap, builder)
        r == insert_block(built.heap, blocks, mementos, built.block)
    IN IF r.ret
       THEN Iter(built.heap, r.blocks, r.mementos, state, builder, pstat)
       ELSE Iter(heap, r.blocks, r.mementos, prev_state, builder,
                 Raise("Duplicate id in block with id {}", builder.id))

\* prev_state is None or LineType.EMPTY
after_empty(p) ==
    IF p.line_type = "EMPTY"
    THEN Iter(heap, blocks, mementos, "EMPTY", block_builder, pstat)
    ELSE IF p.line_type = "ID"
    THEN Iter(heap, blocks, mementos, "ID",
              [BlockBuilder EXCEPT !.id = p.line_parsed], pstat)
    ELSE Iter(heap, blocks, mementos, prev_state, block_builder,
              Raise("Invalid start of file", -1))

\* prev_state == LineType.ID
after_id(p) ==
    IF p.line_type = "TIME"
    THEN Iter(heap, blocks, mementos, "TIME",
              [block_builder EXCEPT !.starttime = p.line_parsed[1],
                                    !.endtime = p.line_parsed[2]], pstat)
    ELSE Iter(heap, blocks, mementos, prev_state, block_builder,
              Raise("ID line not followed by time line: {}", index))

\* prev_state == LineType.TIME
after_time(p) ==
    IF p.line_type = "TEXT"
    THEN Iter(heap, blocks, mementos, "TEXT",
              [block_builder EXCEPT !.text = Append(@, p.line_parsed)], pstat)
    ELSE Iter(heap, blocks, mementos, prev_state, block_builder,
              Raise("Time line not followed by text line: {}", index))

\* after_text without its check for an ID line: the line opens the next block
after_text_accepts_id(p) ==
    IF p.line_type = "TEXT"
    THEN LET builder == [block_builder EXCEPT !.text = Append(@, p.line_parsed)]
         IN IF index = last_line
            THEN finalize(builder, "TEXT")
            ELSE Iter(heap, blocks, mementos, "TEXT", builder, pstat)
    ELSE IF p.line_type = "EMPTY" THEN finalize(block_builder, "EMPTY")
    ELSE IF p.line_type = "ID"
    THEN Iter(heap, blocks, mementos, "ID",
              [BlockBuilder EXCEPT !.id = p.line_parsed], pstat)
    ELSE Iter(heap, blocks, mementos, prev_state, block_builder,
              Raise("Text line not followed by further text line or empty line: {}", index))

\* prev_state == LineType.TEXT
after_text(p) ==
    IF p.line_type = "TEXT"
    THEN LET builder == [block_builder EXCEPT !.text = Append(@, p.line_parsed)]
         IN IF index = last_line
            THEN finalize(builder, "TEXT")
            ELSE Iter(heap, blocks, mementos, "TEXT", builder, pstat)
    ELSE IF p.line_type = "EMPTY" THEN finalize(block_builder, "EMPTY")
    ELSE IF p.line_type = "ID"
    THEN Iter(heap, blocks, mementos, prev_state, block_builder,
              Raise("Missing space between blocks: {}", index))
    ELSE Iter(heap, blocks, mementos, prev_state, block_builder,
              Raise("Text line not followed by further text line or empty line: {}", index))

\* the body of the loop of parse_file on one line
iteration(line) ==
    LET p == parse_line(line)
    IN IF p.exc # "none"
       THEN Iter(heap, blocks, mementos, prev_state, block_builder,
                 PStat("raised", p.exc, "Invalid value for field", -1))
       ELSE IF prev_state \in {"None", "EMPTY"} THEN after_empty(p)
       ELSE IF prev_state = "ID" THEN after_id(p)
       ELSE IF prev_state = "TIME" THEN after_time(p)
       ELSE after_text(p)

\* the lines of the files parsed
Fmt2(n) == <<Digits[(n \div 10) + 1], Digits[(n % 10) + 1]>>

Fmt3(n) == <<Digits[(n \div 100) + 1]>> \o Fmt2(n % 100)

FormatTime(h, m, s, ms) == Fmt2(h) \o <<":">> \o Fmt2(m) \o <<":">> \o Fmt2(s) \o <<",">> \o Fmt3(ms)

TimeLine(starttime, endtime) == starttime \o <<" ", "-", "-", ">", " ">> \o endtime \o <<"\n">>

FileLines ==
    { <<"\n">>,
      <<"0", "\n">>, <<"1", "\n">>, <<"2", "\n">>,
      TimeLine(FormatTime(0, 0, 0, 0), FormatTime(0, 0, 0, 1)),
      TimeLine(FormatTime(0, 0, 0, 0), FormatTime(0, 60, 0, 0)),
      <<"x", "\n">>,
      <<"x">>, <<"1">> }

\* Subtitle.__init__ and the first lines of parse_file: the file has been read
\* and last_line is known; the text of a line is drawn when the loop reaches it
InitParse ==
    /\ heap = <<>>
    /\ blocks = <<>>
    /\ mementos = <<>>
    /\ last = [op |-> "__init__", exc |-> "none", ret |-> "None", nlog |-> 0, held |-> <<>>,
               undone |-> <<>>, fields |-> <<>>]
    /\ snaps = <<Snap(heap, <<>>, <<>>)>>
    /\ lines = <<>>
    /\ last_line \in -1..(MaxLines - 1)
    /\ index = 0
    /\ prev_state = "None"
    /\ block_builder = BlockBuilder
    /\ pstat = PStat("running", "none", "", -1)
    /\ first = NoFirst
    /\ classified = NoLine
    /\ TimeIdle
    /\ PublisherIdle

\* one iteration of the loop; readlines() ends every line but the last of the
\* file with a newline
ParseLine(line) ==
    /\ pstat.status = "running"
    /\ index <= last_line
    /\ line[Len(line)] # "\n" => index = last_line
    /\ LET r == iteration(line)
       IN /\ heap' = r.heap
          /\ blocks' = r.blocks
          /\ mementos' = r.mementos
          /\ prev_state' = r.prev_state
          /\ block_builder' = r.block_builder
          /\ pstat' = r.pstat
          /\ index' = IF r.pstat.status = "running" THEN index + 1 ELSE index
          /\ snaps' = Track(r.heap, r.blocks, r.mementos)
    /\ lines' = Append(lines, line)
    /\ UNCHANGED <<last, last_line, first, classified, tvars, evars>>

\* the loop is over: parse_file returns
ParseReturn ==
    /\ pstat.status = "running"
    /\ index > last_line
    /\ pstat' = PStat("done", "none", "", -1)
    /\ UNCHANGED <<tvars, evars>>
    /\ UNCHANGED <<heap, blocks, mementos, last, snaps, lines, last_line, index,
                   prev_state, block_builder, first, classified>>

NextParse ==
    \/ \E line \in FileLines : ParseLine(line)
    \/ ParseReturn

SpecParse == InitParse /\ [][NextParse]_vars

\* a client that parses a file and, once parse_file has returned, calls
\* undo() and reset()
NextParseUndo ==
    \/ NextParse
    \/ pstat.status = "done" /\ Running /\ Undo
    \/ pstat.status = "done" /\ Running /\ Reset

SpecParseUndo == InitParse /\ [][NextParseUndo]_vars

-----------------------------------------------------------------------------
(* A client that hands single lines to Subtitle.parse_line. *)

\* the characters of the short lines
Chars == {" ", "0", "1", "x"}

\* the short lines: every string of up to MaxChars characters, as the last
\* line of a file without a newline and as any other line
ShortLines ==
    LET strs == UNION {[1..n -> Chars] : n \in 0..MaxChars}
    IN strs \cup {str \o <<"\n">> : str \in strs}

\* HH:MM:SS,mmm or HH:MM:SS.mmm
Stamp(t, sep) == Fmt2(t[1]) \o <<":">> \o Fmt2(t[2]) \o <<":">> \o Fmt2(t[3]) \o <<sep>> \o Fmt3(t[4])

\* the stamps of the time lines: in range, and with minutes or seconds that
\* two digits can write and a Timestamp cannot hold
Stamps ==
    {Stamp(t, sep) : t \in {<<0, 0, 0, 1>>, <<99, 59, 59, 999>>, <<0, 60, 0, 0>>, <<0, 0, 99, 0>>},
                     sep \in {",", "."}}

Arrow == <<" ", "-", "-", ">", " ">>

\* lines with two stamps: time lines, with and without a newline and with
\* spaces before it, and lines that are a time line but for one character
StampLines ==
    LET ranges == {st \o Arrow \o et : st, et \in Stamps}
    IN UNION {{range, range \o <<"\n">>, range \o <<" ", "\n">>,
               <<" ">> \o range \o <<"\n">>, range \o <<"x", "\n">>,
               SubSeq(range, 2, Len(range)) \o <<"\n">>} : range \in ranges}

InitClassify ==
    /\ InitSubtitle
    /\ LoopIdle
    /\ TimeIdle
    /\ PublisherIdle
    /\ \E line \in ShortLines \cup StampLines :
          classified = [line |-> line, result |-> NoLine.result]

\* line_parsed, line_type = self.parse_line(line)
Classify ==
    /\ classified.result.exc = "not called"
    /\ classified' = [classified EXCEPT !.result = parse_line(classified.line)]
    /\ UNCHANGED <<svars, lines, last_line, index, prev_state, block_builder, pstat,
                   first, tvars, evars>>

NextClassify == Classify

SpecClassify == InitClassify /\ [][NextClassify]_vars

-----------------------------------------------------------------------------
(* A client that parses a file with one Subtitle and then, with a second    *)
(* Subtitle, the same file with one more blank line in it.                  *)

\* a whitespace-only line
Blank == <<"\n">>

\* the fields of the element b of a collection; None has none
CueValue(h, b) == IF b = NoneRef THEN [none |-> TRUE] ELSE h[b]

\* the elements of the collection, by value
CueValues == [i \in 1..Len(blocks) |-> CueValue(heap, blocks[i])]

\* the file F with a blank line put in after its line k
WithBlank(F, k) == SubSeq(F, 1, k) \o <<Blank>> \o SubSeq(F, k + 1, Len(F))

\* where the blank line may go: before the first line, next to a blank line,
\* or after the last line when the file ends with the newline of a text line
\* of a block and its parse has returned
BlankAt(k) ==
    LET F == first.lines
    IN \/ k = 0
       \/ k >= 1 /\ pattern_empty(F[k])
       \/ k < Len(F) /\ pattern_empty(F[k + 1])
       \/ /\ k = Len(F) /\ k >= 1
          /\ first.status = "done" /\ first.prev_state = "TEXT"
          /\ F[k][Len(F[k])] = "\n"

\* `line` is the next line of the first file with a blank line put in
Follows(line) ==
    \E k \in 0..Len(first.lines) :
        /\ BlankAt(k)
        /\ Len(lines) + 1 <= Len(first.lines) + 1
        /\ SubSeq(WithBlank(first.lines, k), 1, Len(lines) + 1) = Append(lines, line)

\* parse_file has returned or raised; a second Subtitle is made and its
\* parse_file called on a file one line longer
ParseAgain ==
    /\ first = NoFirst
    /\ pstat.status \in {"done", "raised"}
    /\ last_line + 1 < MaxLines
    /\ first' = [status |-> pstat.status, prev_state |-> prev_state,
                 lines |-> lines, cues |-> CueValues]
    /\ heap' = <<>>
    /\ blocks' = <<>>
    /\ mementos' = <<>>
    /\ snaps' = <<Snap(<<>>, <<>>, <<>>)>>
    /\ lines' = <<>>
    /\ last_line' = last_line + 1
    /\ index' = 0
    /\ prev_state' = "None"
    /\ block_builder' = BlockBuilder
    /\ pstat' = PStat("running", "none", "", -1)
    /\ UNCHANGED <<last, classified, tvars, evars>>

NextBlank ==
    \/ \E line \in FileLines : (IF first = NoFirst THEN TRUE ELSE Follows(line)) /\ ParseLine(line)
    \/ ParseReturn
    \/ ParseAgain

SpecBlank == InitParse /\ [][NextBlank]_vars

-----------------------------------------------------------------------------
(* BlockEventPublisher (modules/eventpublisher.py) with subscribers that    *)
(* keep what they are called with, as the subscriber of                     *)
(* test_eventpublisher does.                                                *)

\* BlockEventPublisher.add_subscriber: _subscribers is a set
add_subscriber(subs, subscriber) == subs \cup {subscriber}

\* remove_subscriber, were it to use set.discard
remove_subscriber_discard(subs, subscriber) ==
    [subscribers |-> subs \ {subscriber}, exc |-> "none"]

\* BlockEventPublisher.remove_subscriber: set.remove raises KeyError for an
\* element that is not in the set
remove_subscriber(subs, subscriber) ==
    IF subscriber \in subs
    THEN [subscribers |-> subs \ {subscriber}, exc |-> "none"]
    ELSE [subscribers |-> subs, exc |-> "KeyError"]

\* publish, were it to call every subscriber it has ever been called about
publish_to_everyone(subs, recv, event) ==
    [s \in DOMAIN recv |-> Append(recv[s], event)]

\* BlockEventPublisher.publish: each element of the set is called with the
\* event; recv[s] is what subscriber s has been called with so far
publish_to_subscribers(subs, recv, event) ==
    [s \in DOMAIN recv |-> IF s \in subs THEN Append(recv[s], event) ELSE recv[s]]

\* the events published
Events == {"e1", "e2"}

PubCalled(op, arg, exc) == [op |-> op, arg |-> arg, exc |-> exc, before |-> subscribers]

\* BlockEventPublisher.__init__
InitPublisher ==
    /\ InitSubtitle
    /\ ParseIdle
    /\ TimeIdle
    /\ subscribers = {}
    /\ received = [s \in Subs |-> <<>>]
    /\ pubhist = <<>>

AddSubscriber(subscriber) ==
    /\ Len(pubhist) < MaxPubCalls
    /\ subscribers' = add_subscriber(subscribers, subscriber)
    /\ pubhist' = Append(pubhist, PubCalled("add_subscriber", subscriber, "none"))
    /\ UNCHANGED <<svars, pvars, tvars, received>>

RemoveSubscriber(subscriber) ==
    /\ Len(pubhist) < MaxPubCalls
    /\ LET r == remove_subscriber(subscribers, subscriber)
       IN /\ subscribers' = r.subscribers
          /\ pubhist' = Append(pubhist, PubCalled("remove_subscriber", subscriber, r.exc))
    /\ UNCHANGED <<svars, pvars, tvars, received>>

Publish(event) ==
    /\ Len(pubhist) < MaxPubCalls
    /\ received' = publish_to_subscribers(subscribers, received, event)
    /\ pubhist' = Append(pubhist, PubCalled("publish", event, "none"))
    /\ UNCHANGED <<svars, pvars, tvars, subscribers>>

NextPublisher ==
    \/ \E subscriber \in Subs : AddSubscriber(subscriber)
    \/ \E subscriber \in Subs : RemoveSubscriber(subscriber)
    \/ \E event \in Events : Publish(event)

SpecPublisher == InitPublisher /\ [][NextPublisher]_vars

-----------------------------------------------------------------------------
(* Properties of the aggregate, checked under Spec *)

\* the state in which the log last grew to its present length
Base == snaps[Len(mementos) + 1]

Members(bl) == {bl[i] : i \in 1..Len(bl)}

\* the cues of a collection, each as its (id, start, end, text)
Cues(h, bl) == {h[b] : b \in Members(bl)}

\* C1: field mutations on a cue followed by as many undo() calls leave the
\* cue's id, start, end and text equal by value to what they were before the
\* first of those mutations: at every moment each block's fields are the ones
\* it had when the log last grew to its present length.
C1_FieldsRestored == heap = Base.heap

\* two field mutations have just been undone, one after the other
C1_Witness ==
    /\ Len(last.undone) >= 2
    /\ \A i \in 1..Len(last.undone) : last.undone[i] = "BLOCK_UPDATED"
    /\ last.exc = "none"

\* C2: undo is an exact LIFO inverse: after k logged operations and j <= k
\* undo() calls the set of cues in the collection, every cue's fields and the
\* log are what they were right after the first k - j logged operations.
\* The cues of the collection are compared by value here, which asks less
\* than comparing the objects, and only calls that returned are looked at.
C2_UndoExactInverse ==
    (last.op # "reset" /\ last.exc = "none") =>
        /\ heap = Base.heap
        /\ Cues(heap, blocks) = Cues(Base.heap, Base.blocks)
        /\ mementos = Base.mementos

\* C3: after any sequence of insert, remove, setter and add_line calls on a
\* fresh Subtitle, reset() does not raise and leaves the log and the
\* collection empty.
C3_ResetRewinds ==
    last.op = "reset" =>
        /\ last.exc = "none"
        /\ mementos = <<>>
        /\ blocks = <<>>

\* C4: undo() and reset() on an empty log raise nothing and leave the
\* collection, every cue's fields and the log as they were.
C4_UndoOnEmptyLog ==
    [][(mementos = <<>> /\ (Undo \/ Reset)) =>
          /\ last'.exc = "none"
          /\ heap' = heap
          /\ blocks' = blocks
          /\ mementos' = <<>>]_vars

\* undo() has been called on an empty log
C4_Witness ==
    /\ last.op = "undo"
    /\ last.nlog = 0
    /\ mementos = <<>>

\* C5: insert(cue) fails and changes neither the collection nor the log
\* exactly when the collection holds a cue with the same id, start, end and
\* text; otherwise it appends the cue, logs one CueAdded and succeeds.
C5_InsertRejectsEqualByValue ==
    [][\A b \in Objs : InsertBlock(b) =>
          IF \E i \in 1..Len(blocks) : heap[blocks[i]] = heap[b]
          THEN /\ last'.ret = "False"
               /\ blocks' = blocks
               /\ mementos' = mementos
          ELSE /\ last'.ret = "True"
               /\ blocks' = Append(blocks, b)
               /\ mementos' = Append(mementos, BlockAddedEvent(b))]_vars

\* C6: remove(cue) of a cue in the collection takes out that very object,
\* keeps the others in order and logs one CueRemoved; remove(cue) of a cue
\* that is not in the collection changes neither the collection nor the log.
\* A cue counts as in the collection here as soon as the collection holds a
\* cue with the same id, start, end and text, and any such cue may be the one
\* taken out, which asks less than the claim does.
C6_RemoveThatCue ==
    [][\A b \in Objs : RemoveBlock(b) =>
          IF \E i \in 1..Len(blocks) : heap[blocks[i]] = heap[b]
          THEN /\ \E i \in 1..Len(blocks) :
                     /\ heap[blocks[i]] = heap[b]
                     /\ blocks' = SubSeq(blocks, 1, i - 1) \o SubSeq(blocks, i + 1, Len(blocks))
               /\ mementos' = Append(mementos, BlockRemovedEvent(b))
          ELSE /\ blocks' = blocks
               /\ mementos' = mementos]_vars

\* C7: the collection never holds two distinct cues that the membership
\* check considers equal.
C7_NoEqualCues ==
    \A i, j \in 1..Len(blocks) :
        blocks[i] # blocks[j] => ~RefEq(heap, blocks[i], blocks[j])

-----------------------------------------------------------------------------
(* Properties of the parser *)

\* the kind parse_line gives line i of the file
Kind(i) == parse_line(lines[i]).line_type

\* the positions of the id lines of the file, in file order
IdLines == SelectSeq([i \in 1..Len(lines) |-> i], LAMBDA i : Kind(i) = "ID")

\* the last of the text lines that follow the time line at position i - 1
LastText(i) ==
    CHOOSE j \in i..Len(lines) :
        /\ \A k \in i..j : Kind(k) = "TEXT"
        /\ j = Len(lines) \/ Kind(j + 1) # "TEXT"

\* the file follows the SubRip grammar: each id line (a positive number) opens
\* the file or follows a blank line and is followed by a time line and a text
\* line; a time line only follows an id line, a text line only a time line or
\* a text line; every time line has its fields in range
FollowsGrammar ==
    /\ \A i \in 1..Len(lines) : parse_line(lines[i]).exc = "none"
    /\ \A i \in 1..Len(lines) :
          /\ Kind(i) = "ID" =>
                /\ parse_line(lines[i]).line_parsed >= 1
                /\ i = 1 \/ Kind(i - 1) = "EMPTY"
                /\ i + 2 <= Len(lines) /\ Kind(i + 1) = "TIME" /\ Kind(i + 2) = "TEXT"
          /\ Kind(i) = "TIME" => i > 1 /\ Kind(i - 1) = "ID"
          /\ Kind(i) = "TEXT" => i > 1 /\ Kind(i - 1) \in {"TIME", "TEXT"}

\* the cue the block at id line i describes
CueAt(i) ==
    Block(parse_line(lines[i]).line_parsed,
          parse_line(lines[i + 1]).line_parsed[1],
          parse_line(lines[i + 1]).line_parsed[2],
          [k \in 1..(LastText(i + 2) - (i + 1)) |-> parse_line(lines[i + 1 + k]).line_parsed])

\* C8: a parse that completes leaves no two cues of the collection with the
\* same id.
C8_UniqueIds ==
    pstat.status = "done" =>
        \A i, j \in 1..Len(blocks) :
            (i # j /\ blocks[i] # NoneRef /\ blocks[j] # NoneRef)
                => heap[blocks[i]].id # heap[blocks[j]].id

\* C9: when the parse of a file that follows the grammar completes, the
\* collection holds one cue per block, in file order, each with the id, start,
\* end and text lines of its block.
C9_OneCuePerBlock ==
    (pstat.status = "done" /\ FollowsGrammar) =>
        /\ Len(blocks) = Len(IdLines)
        /\ \A n \in 1..Len(blocks) :
              blocks[n] # NoneRef /\ heap[blocks[n]] = CueAt(IdLines[n])

\* the table of the transitions the parser accepts
Accepts(state, line_type) ==
    \/ state \in {"None", "EMPTY"} /\ line_type \in {"EMPTY", "ID"}
    \/ state = "ID" /\ line_type = "TIME"
    \/ state = "TIME" /\ line_type = "TEXT"
    \/ state = "TEXT" /\ line_type \in {"TEXT", "EMPTY"}

\* C10: on a line parse_line classifies, the loop moves to the state of the
\* line's kind exactly when the table lists (state, kind), the only failure
\* then being the refusal of the finished block by insert_block; on every
\* other combination parse_file raises a ParseException in that iteration and
\* neither the collection, the log nor the state changes.
C10_TransitionTable ==
    [][\A line \in FileLines :
          (ParseLine(line) /\ parse_line(line).exc = "none") =>
              LET line_type == parse_line(line).line_type
              IN IF Accepts(prev_state, line_type)
                 THEN \/ /\ pstat'.status = "running"
                         /\ prev_state' = line_type
                         /\ index' = index + 1
                      \/ /\ prev_state = "TEXT"
                         /\ pstat'.status = "raised"
                         /\ pstat'.exc = "ParseException"
                         /\ pstat'.message = "Duplicate id in block with id {}"
                 ELSE /\ pstat'.status = "raised"
                      /\ pstat'.exc = "ParseException"
                      /\ pstat'.message # "Duplicate id in block with id {}"
                      /\ index' = index
                      /\ prev_state' = prev_state
                      /\ blocks' = blocks
                      /\ mementos' = mementos]_vars

\* an id line straight after the text of a second block has been refused,
\* the first block having gone through every accepted transition
C10_Witness ==
    /\ pstat.status = "raised"
    /\ pstat.message = "Missing space between blocks: {}"
    /\ Len(blocks) >= 1

\* C11: every ParseException parse_file raises carries the 0-based index of
\* the line on which the loop stopped.
C11_ErrorNamesLine ==
    (pstat.status = "raised" /\ pstat.exc = "ParseException") => pstat.arg = index

\* C12: parse_file either returns, with nothing but cues in the collection,
\* or raises a ParseException; no other exception leaves it.
C12_OnlyParseErrors ==
    /\ pstat.status = "raised" => pstat.exc = "ParseException"
    /\ pstat.status = "done" => \A i \in 1..Len(blocks) : blocks[i] # NoneRef

-----------------------------------------------------------------------------
(* Timestamp arithmetic (models/timestamp.py).  A call gives the fields the *)
(* object is left with and the exception it raised, if any.                 *)

Returned(t) == [t |-> t, exc |-> "none"]

Raised(t, exc) == [t |-> t, exc |-> exc]

\* math.floor(sum / n) for sum >= 0 and math.ceil((sum / n) * -1) for sum < 0:
\* the float quotient is exact enough for the sums of the model
Floor(sum, n) == sum \div n

Ceil(sum, n) == -(sum \div n)

\* Timestamp.add_hours
add_hours(t, hours) ==
    IF hours = 0 THEN Returned(t)
    ELSE LET sum == t.hours + hours
         IN IF hours > 0
            THEN IF sum > 99 THEN Raised(t, "InvalidTimeException")
                 ELSE Returned([t EXCEPT !.hours = sum])
            ELSE IF sum < 0 THEN Raised(t, "InvalidTimeException")
                 ELSE Returned([t EXCEPT !.hours = sum])

\* Timestamp.remove_hours
remove_hours(t, hours) == add_hours(t, hours * (-1))

\* add_minutes storing the minutes before it carries into the hours
add_minutes_stores_first(t, minutes) ==
    IF minutes = 0 THEN Returned(t)
    ELSE LET sum == t.minutes + minutes
             stored == [t EXCEPT !.minutes = sum % 60]
         IN IF minutes > 0
            THEN IF sum >= 60 THEN add_hours(stored, Floor(sum, 60)) ELSE Returned(stored)
            ELSE IF sum < 0 THEN remove_hours(stored, Ceil(sum, 60)) ELSE Returned(stored)

\* Timestamp.add_minutes: the carry or borrow goes to the hours first, the
\* minutes are stored when that call has returned
add_minutes(t, minutes) ==
    IF minutes = 0 THEN Returned(t)
    ELSE LET sum == t.minutes + minutes
             carried == IF minutes > 0
                        THEN IF sum >= 60 THEN add_hours(t, Floor(sum, 60)) ELSE Returned(t)
                        ELSE IF sum < 0 THEN remove_hours(t, Ceil(sum, 60)) ELSE Returned(t)
         IN IF carried.exc # "none" THEN carried
            ELSE Returned([carried.t EXCEPT !.minutes = sum % 60])

\* Timestamp.remove_minutes
remove_minutes(t, minutes) == add_minutes(t, minutes * (-1))

\* add_seconds storing the sum as it is
add_seconds_unreduced(t, seconds) ==
    IF seconds = 0 THEN Returned(t)
    ELSE LET sum == t.seconds + seconds
             carried == IF seconds > 0
                        THEN IF sum >= 60 THEN add_minutes(t, Floor(sum, 60)) ELSE Returned(t)
                        ELSE IF sum < 0 THEN remove_minutes(t, Ceil(sum, 60)) ELSE Returned(t)
         IN IF carried.exc # "none" THEN carried
            ELSE Returned([carried.t EXCEPT !.seconds = sum])

\* Timestamp.add_seconds
add_seconds(t, seconds) ==
    IF seconds = 0 THEN Returned(t)
    ELSE LET sum == t.seconds + seconds
             carried == IF seconds > 0
                        THEN IF sum >= 60 THEN add_minutes(t, Floor(sum, 60)) ELSE Returned(t)
                        ELSE IF sum < 0 THEN remove_minutes(t, Ceil(sum, 60)) ELSE Returned(t)
         IN IF carried.exc # "none" THEN carried
            ELSE Returned([carried.t EXCEPT !.seconds = sum % 60])

\* Timestamp.remove_seconds
remove_seconds(t, seconds) == add_seconds(t, seconds * (-1))

\* Timestamp.add_milliseconds
add_milliseconds(t, milliseconds) ==
    IF milliseconds = 0 THEN Returned(t)
    ELSE LET sum == t.milliseconds + milliseconds
             carried == IF milliseconds > 0
                        THEN IF sum >= 1000 THEN add_seconds(t, Floor(sum, 1000)) ELSE Returned(t)
                        ELSE IF sum < 0 THEN remove_seconds(t, Ceil(sum, 1000)) ELSE Returned(t)
         IN IF carried.exc # "none" THEN carried
            ELSE Returned([carried.t EXCEPT !.milliseconds = sum % 1000])

\* Timestamp.remove_milliseconds
remove_milliseconds(t, milliseconds) == add_milliseconds(t, milliseconds * (-1))

\* add_<unit> with an int so large that sum / 60 (or sum / 1000) is beyond the
\* largest float, e.g. 10**400 or its negative: add_hours compares and raises,
\* the other three divide first, and the division raises OverflowError
add_beyond_float(t, unit) ==
    IF unit = "hours" THEN Raised(t, "InvalidTimeException")
    ELSE Raised(t, "OverflowError")

\* __add__ without its last step, add_milliseconds
TimestampAdd_three_steps(a, b) ==
    LET r1 == add_hours(a, b.hours)
        r2 == IF r1.exc # "none" THEN r1 ELSE add_minutes(r1.t, b.minutes)
    IN IF r2.exc # "none" THEN r2 ELSE add_seconds(r2.t, b.seconds)

\* Timestamp.__add__: the four additions on a copy of self; the copy is
\* returned unless one of them raises
TimestampAdd(a, b) ==
    LET r1 == add_hours(a, b.hours)
        r2 == IF r1.exc # "none" THEN r1 ELSE add_minutes(r1.t, b.minutes)
        r3 == IF r2.exc # "none" THEN r2 ELSE add_seconds(r2.t, b.seconds)
    IN IF r3.exc # "none" THEN r3 ELSE add_milliseconds(r3.t, b.milliseconds)

\* __sub__ without its last step, remove_milliseconds
TimestampSub_three_steps(a, b) ==
    LET r1 == remove_hours(a, b.hours)
        r2 == IF r1.exc # "none" THEN r1 ELSE remove_minutes(r1.t, b.minutes)
    IN IF r2.exc # "none" THEN r2 ELSE remove_seconds(r2.t, b.seconds)

\* Timestamp.__sub__
TimestampSub(a, b) ==
    LET r1 == remove_hours(a, b.hours)
        r2 == IF r1.exc # "none" THEN r1 ELSE remove_minutes(r1.t, b.minutes)
        r3 == IF r2.exc # "none" THEN r2 ELSE remove_seconds(r2.t, b.seconds)
    IN IF r3.exc # "none" THEN r3 ELSE remove_milliseconds(r3.t, b.milliseconds)

\* Timestamp.__le__, __gt__, __ge__
TimestampLe(a, b) == compare(a, b) <= 0

TimestampGt(a, b) == compare(a, b) > 0

TimestampGe(a, b) == compare(a, b) >= 0

-----------------------------------------------------------------------------
(* A client that fills a TimestampBuilder, builds a Timestamp and calls its *)
(* arithmetic and its comparisons.                                          *)

\* the values the client passes to with_hours, with_minutes and with_seconds,
\* and to with_milliseconds
HourVals == {-1, 0, 99, 100}
SixtyVals == {-1, 0, 59, 60}
MilliVals == {-1, 0, 999, 1000}

\* the deltas of the arithmetic calls
Deltas == {-3600, -61, -1, 0, 1, 61, 3600}

\* the right-hand operands of +, - and the comparisons
Operands ==
    { Timestamp(0, 0, 0, 0), Timestamp(0, 0, 0, 1), Timestamp(0, 0, 59, 0),
      Timestamp(0, 59, 0, 0), Timestamp(99, 0, 0, 0), Timestamp(99, 59, 59, 999) }

Units == {"hours", "minutes", "seconds", "milliseconds"}

TimeCalled(op, arg, before, exc, ret) ==
    [op |-> op, arg |-> arg, before |-> before, exc |-> exc, ret |-> ret]

\* the four fields of a builder
Fields(b) == Timestamp(b.hours, b.minutes, b.seconds, b.milliseconds)

InitTime ==
    /\ heap = <<>>
    /\ blocks = <<>>
    /\ mementos = <<>>
    /\ last = [op |-> "__init__", exc |-> "none", ret |-> "None", nlog |-> 0, held |-> <<>>,
               undone |-> <<>>, fields |-> <<>>]
    /\ snaps = <<Snap(heap, <<>>, <<>>)>>
    /\ ParseIdle
    /\ tbuilder = TimestampBuilder
    /\ ts = NoneTime
    /\ tlast = TimeCalled("TimestampBuilder", 0, NoneTime, "none", NoneTime)
    /\ ncalls = 0
    /\ PublisherIdle

\* a with_* call that left the builder as r: an exception is caught by the
\* client, who goes on using the builder
With(op, value, r) ==
    /\ ts = NoneTime
    /\ tbuilder' = [r EXCEPT !.exc = "none"]
    /\ tlast' = TimeCalled(op, value, Fields(tbuilder), r.exc, NoneTime)
    /\ UNCHANGED <<svars, pvars, evars, ts, ncalls>>

WithHours(value) == With("with_hours", value, with_hours(tbuilder, value))

WithMinutes(value) == With("with_minutes", value, with_minutes(tbuilder, value))

WithSeconds(value) == With("with_seconds", value, with_seconds(tbuilder, value))

WithMilliseconds(value) == With("with_milliseconds", value, with_milliseconds(tbuilder, value))

\* TimestampBuilder.build
Build ==
    /\ ts = NoneTime
    /\ ts' = build_timestamp(tbuilder)
    /\ tlast' = TimeCalled("build", 0, Fields(tbuilder), "none", ts')
    /\ UNCHANGED <<svars, pvars, evars, tbuilder, ncalls>>

\* an arithmetic call on the Timestamp that ended as r
TimeCall(op, delta, r) ==
    /\ ts # NoneTime
    /\ ncalls < MaxCalls
    /\ ts' = r.t
    /\ tlast' = TimeCalled(op, delta, ts, r.exc, NoneTime)
    /\ ncalls' = ncalls + 1
    /\ UNCHANGED <<svars, pvars, evars, tbuilder>>

AddHours(delta) == TimeCall("add_hours", delta, add_hours(ts, delta))

RemoveHours(delta) == TimeCall("remove_hours", delta, remove_hours(ts, delta))

AddMinutes(delta) == TimeCall("add_minutes", delta, add_minutes(ts, delta))

RemoveMinutes(delta) == TimeCall("remove_minutes", delta, remove_minutes(ts, delta))

AddSeconds(delta) == TimeCall("add_seconds", delta, add_seconds(ts, delta))

RemoveSeconds(delta) == TimeCall("remove_seconds", delta, remove_seconds(ts, delta))

AddMilliseconds(delta) == TimeCall("add_milliseconds", delta, add_milliseconds(ts, delta))

RemoveMilliseconds(delta) == TimeCall("remove_milliseconds", delta, remove_milliseconds(ts, delta))

\* add_<unit> or remove_<unit> with an int beyond the floats; sign is that of
\* the int handed to add_<unit>
AddBeyondFloat(unit, sign) ==
    /\ ts # NoneTime
    /\ ncalls < MaxCalls
    /\ LET r == add_beyond_float(ts, unit)
       IN /\ ts' = r.t
          /\ tlast' = TimeCalled("beyond_float", [unit |-> unit, sign |-> sign], ts, r.exc, NoneTime)
    /\ ncalls' = ncalls + 1
    /\ UNCHANGED <<svars, pvars, evars, tbuilder>>

\* __add__ and __sub__, were `time` self and not a new Timestamp: the steps
\* made before one raises, or all four, are made on self
operands_after_alias(a, b, r) == [self |-> r.t, other |-> b]

\* the operands once __add__ or __sub__ has ended as r: `time` is a new
\* Timestamp that self's fields are copied into, every step is made on it,
\* and other is only read
operands_after(a, b, r) == [self |-> a, other |-> b]

\* a call of + or - with its outcome and the operands as it leaves them
OperatorCalled(op, other, r) ==
    [op |-> op, arg |-> other, before |-> ts, exc |-> r.exc,
     ret |-> IF r.exc = "none" THEN r.t ELSE NoneTime,
     after |-> operands_after(ts, other, r)]

\* ts + other
Plus(other) ==
    /\ ts # NoneTime
    /\ LET r == TimestampAdd(ts, other)
       IN /\ tlast' = OperatorCalled("__add__", other, r)
          /\ ts' = operands_after(ts, other, r).self
    /\ UNCHANGED <<svars, pvars, evars, tbuilder, ncalls>>

\* ts - other
Minus(other) ==
    /\ ts # NoneTime
    /\ LET r == TimestampSub(ts, other)
       IN /\ tlast' = OperatorCalled("__sub__", other, r)
          /\ ts' = operands_after(ts, other, r).self
    /\ UNCHANGED <<svars, pvars, evars, tbuilder, ncalls>>

\* ts == other, ts < other, ts <= other, ts > other, ts >= other, ts.compare(other)
Compare(other) ==
    /\ ts # NoneTime
    /\ tlast' = TimeCalled("compare", other, ts, "none",
                           [eq |-> TimestampEq(ts, other), lt |-> TimestampLt(ts, other),
                            le |-> TimestampLe(ts, other), gt |-> TimestampGt(ts, other),
                            ge |-> TimestampGe(ts, other), compare |-> compare(ts, other)])
    /\ UNCHANGED <<svars, pvars, evars, tbuilder, ts, ncalls>>

NextTime ==
    \/ \E value \in HourVals : WithHours(value)
    \/ \E value \in SixtyVals : WithMinutes(value)
    \/ \E value \in SixtyVals : WithSeconds(value)
    \/ \E value \in MilliVals : WithMilliseconds(value)
    \/ Build
    \/ \E delta \in Deltas : AddHours(delta)
    \/ \E delta \in Deltas : RemoveHours(delta)
    \/ \E delta \in Deltas : AddMinutes(delta)
    \/ \E delta \in Deltas : RemoveMinutes(delta)
    \/ \E delta \in Deltas : AddSeconds(delta)
    \/ \E delta \in Deltas : RemoveSeconds(delta)
    \/ \E delta \in Deltas : AddMilliseconds(delta)
    \/ \E delta \in Deltas : RemoveMilliseconds(delta)
    \/ \E unit \in Units, sign \in {-1, 1} : AddBeyondFloat(unit, sign)
    \/ \E other \in Operands : Plus(other)
    \/ \E other \in Operands : Minus(other)
    \/ \E other \in Operands : Compare(other)

SpecTime == InitTime /\ [][NextTime]_vars

-----------------------------------------------------------------------------
(* Properties of Timestamp and TimestampBuilder *)

InRange(t) ==
    /\ t.hours \in 0..99
    /\ t.minutes \in 0..59
    /\ t.seconds \in 0..59
    /\ t.milliseconds \in 0..999

\* the milliseconds a Timestamp stands for
TotalMs(t) == ((t.hours * 60 + t.minutes) * 60 + t.seconds) * 1000 + t.milliseconds

\* 99:59:59.999
MaxTotalMs == TotalMs(Timestamp(99, 59, 59, 999))

ArithOps ==
    {"add_hours", "remove_hours", "add_minutes", "remove_minutes",
     "add_seconds", "remove_seconds", "add_milliseconds", "remove_milliseconds"}

\* the milliseconds of one unit of the call op
MsPer(op) ==
    CASE op \in {"add_hours", "remove_hours"} -> 3600000
      [] op \in {"add_minutes", "remove_minutes"} -> 60000
      [] op \in {"add_seconds", "remove_seconds"} -> 1000
      [] op \in {"add_milliseconds", "remove_milliseconds"} -> 1

\* the signed delta of the call op(arg)
Signed(op, arg) ==
    IF op \in {"add_hours", "add_minutes", "add_seconds", "add_milliseconds"} THEN arg ELSE -arg

\* C13: whatever calls have been made on a Timestamp built with its fields in
\* range, and however they ended, its four fields are in range.
C13_FieldsInRange == ts # NoneTime => InRange(ts)

\* a second call, remove_milliseconds, has borrowed through every unit
C13_Witness ==
    /\ ncalls >= 2
    /\ tlast.op = "remove_milliseconds"
    /\ tlast.exc = "none"
    /\ ts.hours < tlast.before.hours

\* C14: a call add_u(d) or remove_u(d) returns exactly when the total of the
\* Timestamp plus the signed delta lies in 0 .. 99:59:59.999, and then the
\* fields are the in-range decomposition of that total; otherwise it raises
\* InvalidTimeException.  With p the milliseconds of the unit, the total before
\* is q * p + r, and the total after is (q + d) * p + r.
C14_AddIsTotalArithmetic ==
    /\ tlast.op \in ArithOps =>
          LET p == MsPer(tlast.op)
              q == TotalMs(tlast.before) \div p
              r == TotalMs(tlast.before) % p
              d == Signed(tlast.op, tlast.arg)
          IN IF 0 <= q + d /\ q + d <= (MaxTotalMs - r) \div p
             THEN /\ tlast.exc = "none"
                  /\ InRange(ts)
                  /\ TotalMs(ts) \div p = q + d
                  /\ TotalMs(ts) % p = r
             ELSE tlast.exc = "InvalidTimeException"
    /\ tlast.op = "beyond_float" => tlast.exc = "InvalidTimeException"

\* C16: a call add_u(d) or remove_u(d) that raises InvalidTimeException leaves
\* the four fields as they were before the call.
C16_AllOrNothing ==
    (tlast.op \in ArithOps \cup {"beyond_float"} /\ tlast.exc = "InvalidTimeException")
        => ts = tlast.before

\* add_milliseconds(1) on 99:59:59.999 has failed in the carry into the hours
C16_Witness ==
    /\ tlast.op = "add_milliseconds"
    /\ tlast.arg = 1
    /\ tlast.exc = "InvalidTimeException"
    /\ tlast.before = Timestamp(99, 59, 59, 999)

\* C15: a - b raises InvalidTimeException exactly when a < b, that is when
\* the difference of the totals is negative; otherwise it returns the
\* Timestamp of that difference.
C15_SubIsDifference ==
    tlast.op = "__sub__" =>
        LET a == tlast.before
            b == tlast.arg
        IN /\ TimestampLt(a, b) <=> TotalMs(a) < TotalMs(b)
           /\ IF TimestampLt(a, b)
              THEN tlast.exc = "InvalidTimeException"
              ELSE /\ tlast.exc = "none"
                   /\ InRange(tlast.ret)
                   /\ TotalMs(tlast.ret) = TotalMs(a) - TotalMs(b)

\* 00:00:00.001 has been taken from a larger Timestamp with no milliseconds,
\* which borrows from the seconds
C15_Witness ==
    /\ tlast.op = "__sub__"
    /\ tlast.exc = "none"
    /\ tlast.arg = Timestamp(0, 0, 0, 1)
    /\ tlast.before.milliseconds = 0

\* C17: a == b holds exactly when the four fields of a are those of b, and
\* exactly when compare(a, b) is 0.
C17_EqualityIsStructural ==
    tlast.op = "compare" =>
        /\ tlast.ret.eq <=> tlast.before = tlast.arg
        /\ tlast.ret.eq <=> tlast.ret.compare = 0

\* a precedes b in the order of the 4-tuples
LexLess(a, b) ==
    \/ a.hours < b.hours
    \/ a.hours = b.hours /\ a.minutes < b.minutes
    \/ a.hours = b.hours /\ a.minutes = b.minutes /\ a.seconds < b.seconds
    \/ /\ a.hours = b.hours /\ a.minutes = b.minutes /\ a.seconds = b.seconds
       /\ a.milliseconds < b.milliseconds

\* C18: a < b exactly when a's 4-tuple precedes b's; a <= b iff not a > b and
\* a >= b iff not a < b; of a < b, b < a and equal tuples exactly one holds;
\* a < b and b < c give a < c.
C18_LexicographicOrder ==
    tlast.op = "compare" =>
        LET a == tlast.before
            b == tlast.arg
        IN /\ tlast.ret.lt <=> LexLess(a, b)
           /\ tlast.ret.gt <=> LexLess(b, a)
           /\ tlast.ret.le <=> ~tlast.ret.gt
           /\ tlast.ret.ge <=> ~tlast.ret.lt
           /\ tlast.ret.lt <=> TimestampGt(b, a)
           /\ (tlast.ret.compare = 0) <=> (a = b)
           /\ \/ tlast.ret.lt /\ ~tlast.ret.gt /\ a # b
              \/ ~tlast.ret.lt /\ tlast.ret.gt /\ a # b
              \/ ~tlast.ret.lt /\ ~tlast.ret.gt /\ a = b
           /\ \A c \in Operands : (tlast.ret.lt /\ TimestampLt(b, c)) => TimestampLt(a, c)

\* a < b has been found for an a with more milliseconds than b
C18_Witness ==
    /\ tlast.op = "compare"
    /\ tlast.ret.lt
    /\ tlast.before.milliseconds > tlast.arg.milliseconds

\* the range of the field a with_* call sets
FieldRange(op) ==
    CASE op = "with_hours" -> 0..99
      [] op = "with_minutes" -> 0..59
      [] op = "with_seconds" -> 0..59
      [] op = "with_milliseconds" -> 0..999

\* the builder fields `before` with the field of op set to value
FieldSet(before, op, value) ==
    CASE op = "with_hours" -> [before EXCEPT !.hours = value]
      [] op = "with_minutes" -> [before EXCEPT !.minutes = value]
      [] op = "with_seconds" -> [before EXCEPT !.seconds = value]
      [] op = "with_milliseconds" -> [before EXCEPT !.milliseconds = value]

\* C19: a new builder has four fields 0; with_*(v) stores v in its field and
\* returns when v is in the field's range, and raises InvalidTimeException
\* with the four fields as they were when it is not; build() returns a
\* Timestamp with the four fields of the builder.
C19_BuilderChecksRanges ==
    /\ tlast.op = "TimestampBuilder" => Fields(tbuilder) = Timestamp(0, 0, 0, 0)
    /\ tlast.op \in {"with_hours", "with_minutes", "with_seconds", "with_milliseconds"} =>
          IF tlast.arg \in FieldRange(tlast.op)
          THEN /\ tlast.exc = "none"
               /\ Fields(tbuilder) = FieldSet(tlast.before, tlast.op, tlast.arg)
          ELSE /\ tlast.exc = "InvalidTimeException"
               /\ Fields(tbuilder) = tlast.before
    /\ tlast.op = "build" => tlast.exc = "none" /\ ts = Fields(tbuilder)

\* a Timestamp has been built from a builder that was given hours and seconds
\* only
C19_Witness ==
    /\ tlast.op = "build"
    /\ ts = Timestamp(99, 0, 59, 0)

-----------------------------------------------------------------------------
(* A client that constructs blocks with any fields, inserts some of them in *)
(* any order, and then validates, writes start times and undoes.  What      *)
(* validate raises it catches, and goes on.                                 *)

\* the texts of the blocks the client constructs
Texts == {<<>>, <<<<"x">>>>}

\* the collections the client may have built: block references without
\* repetition
Orders == {<<>>} \cup {<<b>> : b \in Objs} \cup {<<b, c>> : b, c \in Objs}

InitValidate ==
    /\ heap \in [Objs -> {Block(id, starttime, endtime, text) :
                            id \in Ids, starttime \in TimeVals, endtime \in TimeVals,
                            text \in Texts}]
    /\ blocks \in Orders
    /\ \A i, j \in 1..Len(blocks) : i # j => ~RefEq(heap, blocks[i], blocks[j])
    /\ mementos = [i \in 1..Len(blocks) |-> BlockAddedEvent(blocks[i])]
    /\ last = [op |-> IF blocks = <<>> THEN "__init__" ELSE "insert_block", exc |-> "none",
               ret |-> IF blocks = <<>> THEN "None" ELSE "True",
               nlog |-> IF blocks = <<>> THEN 0 ELSE Len(blocks) - 1,
               held |-> SubSeq(blocks, 1, Len(blocks) - 1), undone |-> <<>>,
               fields |-> <<>>]
    /\ snaps = [k \in 1..(Len(blocks) + 1) |->
                  Snap(heap, SubSeq(blocks, 1, k - 1), SubSeq(mementos, 1, k - 1))]
    /\ ParseIdle
    /\ TimeIdle
    /\ PublisherIdle

\* no exception has escaped but the one validate raises
Caught == last.exc \in {"none", "AttributeError"}

NextValidate ==
    \/ \E try_fix \in BOOLEAN : Caught /\ Validate(try_fix)
    \/ \E b \in Objs, value \in TimeVals : Caught /\ SetAttr(b, "starttime", value)
    \/ Caught /\ Undo

SpecValidate == InitValidate /\ [][NextValidate]_vars

-----------------------------------------------------------------------------
(* Properties of validate *)

\* C20: validate never raises and returns a list of reports.
C20_ValidateReturnsReports ==
    last.op = "validate" => last.exc = "none" /\ last.ret = "list"

\* the collection is one validate should find nothing in: ids 1..n, text,
\* start before end, and each cue's start and end after the start and the end
\* of the cue before it
WellFormed(h, bl) ==
    \A i \in 1..Len(bl) :
        LET c == h[bl[i]]
        IN /\ c.id = i
           /\ c.text # <<>>
           /\ compare(c.starttime, c.endtime) < 0
           /\ i > 1 =>
                LET p == h[bl[i - 1]]
                IN /\ compare(c.starttime, p.starttime) > 0
                   /\ compare(c.starttime, p.endtime) > 0
                   /\ compare(c.endtime, p.starttime) > 0
                   /\ compare(c.endtime, p.endtime) > 0

\* C21: validate on a collection of cues with nothing to find returns a list,
\* and does not raise.
C21_NoFindingsOnWellFormed ==
    (last.op = "validate" /\ blocks # <<>> /\ WellFormed(heap, blocks))
        => last.exc = "none" /\ last.ret = "list"

\* C22: validate(True) leaves the cue at each position i (counted from 1) of
\* the collection with id i.
C22_FixRenumbers ==
    [][Validate(TRUE) => \A i \in 1..Len(blocks') : heap'[blocks'[i]].id = i]_vars

\* (start, end) of c is at most that of d, lexicographically
LexLe(c, d) ==
    \/ compare(c.starttime, d.starttime) < 0
    \/ compare(c.starttime, d.starttime) = 0 /\ compare(c.endtime, d.endtime) <= 0

\* C29: after validate every two consecutive cues of the collection are in
\* the lexicographic order of (start, end).
C29_SortedLexicographically ==
    last.op = "validate" =>
        \A i \in 1..(Len(blocks) - 1) : LexLe(heap[blocks[i]], heap[blocks[i + 1]])

\* bl2 holds the references of bl, each as often
Permutation(bl, bl2) ==
    /\ Len(bl) = Len(bl2)
    /\ \A b \in Objs : Cardinality({i \in 1..Len(bl) : bl[i] = b})
                        = Cardinality({i \in 1..Len(bl2) : bl2[i] = b})

\* C30: validate(False) changes neither the log nor any field, and the
\* collection holds the same cues after it; an undo() made after a validate
\* that has changed the order does not bring back the order before it.
C30_ValidateOnlyReorders ==
    [][/\ Validate(FALSE) =>
            /\ mementos' = mementos
            /\ heap' = heap
            /\ Permutation(blocks, blocks')
       /\ (Undo /\ last.op = "validate" /\ blocks # Base.blocks) => blocks' # Base.blocks]_vars

\* validate has changed the order of a collection of two cues
C30_Witness ==
    /\ last.op = "validate"
    /\ Len(blocks) = 2
    /\ blocks # Base.blocks

-----------------------------------------------------------------------------
(* Properties of the undo log *)

\* C25: undo() on a non-empty log leaves the log one entry shorter, the last
\* one gone and nothing appended; reset() runs its undo steps to the end: it
\* returns with the log empty.
C25_UndoShortensResetEmpties ==
    [][/\ (Undo /\ mementos # <<>>) =>
              mementos' = SubSeq(mementos, 1, Len(mementos) - 1)
       /\ Reset => (last'.exc = "none" /\ mementos' = <<>>)]_vars

\* the log has grown by one FieldUpdated event and no other: the one of cue
\* b and the field tagged `field`, with the value `old` the field held
Logged(b, field, old) ==
    mementos' = Append(mementos, [event_type |-> "BLOCK_UPDATED", block |-> b,
                                  field |-> field, old_value |-> [f \in {field} |-> old]])

\* C26: the cues a client has constructed have left nothing in the log, and
\* every write to a cue's id, start, end or text, whatever the value and
\* whether or not the cue is in the collection, appends to the log exactly
\* one FieldUpdated event with that cue, the tag of the field written and the
\* value the field held before the write.  (Only the steps that are a setter
\* or an add_line call need looking at: those are the steps whose call is
\* recorded as one.)
C26_EveryWriteLogged ==
    [][/\ last.op = "__init__" => mementos = <<>>
       /\ last'.op \in {"setattr", "add_line"} =>
            \A b \in Objs :
               /\ \A value \in Ids : SetAttr(b, "id", value) => Logged(b, "ID", heap[b].id)
               /\ \A value \in TimeVals :
                     /\ SetAttr(b, "starttime", value) => Logged(b, "STARTTIME", heap[b].starttime)
                     /\ SetAttr(b, "endtime", value) => Logged(b, "ENDTIME", heap[b].endtime)
               /\ \A line \in Lines : AddLine(b, line) => Logged(b, "TEXT", heap[b].text)]_vars

\* the id it has already has just been written to a cue that is not in the
\* collection, which holds the other cue
C26_Witness ==
    /\ last.op = "setattr"
    /\ blocks # <<>>
    /\ LET event == mementos[Len(mementos)]
       IN /\ event.event_type = "BLOCK_UPDATED"
          /\ event.block \notin Members(blocks)
          /\ event.field = "ID"
          /\ event.old_value["ID"] = heap[event.block].id

\* C27: add_line(x) leaves the cue's text the sequence it was with x at the
\* end, and logs the sequence it was, leaving every event logged before as it
\* is; undoing an add_line gives the cue the text it had before that add_line.
C27_AddLineCopies ==
    [][/\ \A b \in Objs, line \in Lines :
             AddLine(b, line) =>
                 /\ heap'[b].text = Append(heap[b].text, line)
                 /\ Logged(b, "TEXT", heap[b].text)
       /\ \A b \in Objs :
             (/\ Undo
              /\ mementos # <<>>
              /\ mementos[Len(mementos)].event_type = "BLOCK_UPDATED"
              /\ mementos[Len(mementos)].block = b
              /\ mementos[Len(mementos)].field = "TEXT") =>
                 heap'[b].text = snaps[Len(mementos)].heap[b].text]_vars

\* three add_line calls on a cue have been followed by two undo() calls,
\* which have left it the one line of the first
C27_Witness ==
    /\ last.op = "undo"
    /\ Len(last.fields) = 2
    /\ \E b \in Objs :
          /\ \A i \in 1..2 : last.fields[i] = [block |-> b, field |-> "TEXT"]
          /\ Len(heap[b].text) = 1
          /\ Len(mementos) = 1
          /\ mementos[1] = [event_type |-> "BLOCK_UPDATED", block |-> b,
                            field |-> "TEXT", old_value |-> [f \in {"TEXT"} |-> <<>>]]

\* C28: when parse_file has returned, and after any undo() calls made since,
\* the log holds one CueAdded event per cue of the collection, in the order of
\* the collection, and nothing else, and no call has raised; each undo() then
\* takes the last cue, and that cue only, out of the collection, and reset()
\* leaves the collection empty.
C28_LogReplaysParse ==
    [][/\ pstat'.status = "done" =>
             /\ last'.exc = "none"
             /\ mementos' = [i \in 1..Len(blocks') |-> BlockAddedEvent(blocks'[i])]
       /\ (pstat.status = "done" /\ Undo) =>
             blocks' = SubSeq(blocks, 1, Len(blocks) - 1)
       /\ (pstat.status = "done" /\ Reset) => blocks' = <<>>]_vars

\* a file of two cues has been parsed and one undo() has left the first
C28_Witness ==
    /\ pstat.status = "done"
    /\ Len(heap) = 2
    /\ last.op = "undo"
    /\ last.undone = <<"BLOCK_ADDED">>
    /\ blocks = <<1>>

-----------------------------------------------------------------------------
(* Further properties of the parser *)

\* C31: a file with one more blank line before its first line, next to a
\* blank line or after its last block is parsed as the file without it is:
\* parse_file returns on both or raises on both, and the two collections
\* hold the same cues in the same order.
C31_BlankLinesTolerated ==
    first # NoFirst =>
        /\ pstat.status # "running" =>
              /\ pstat.status = first.status
              /\ CueValues = first.cues
        /\ (pstat.status = "running" /\ Len(lines) = Len(first.lines) + 1) =>
              first.status = "done"

\* the rules of the line classifier, first match first
Whitespace == {" ", "\t", "\n", "\r", "\f"}

DecimalDigits == {"0", "1", "2", "3", "4", "5", "6", "7", "8", "9"}

RECURSIVE Pow10(_)
Pow10(n) == IF n = 0 THEN 1 ELSE 10 * Pow10(n - 1)

RECURSIVE Decimal(_)
\* the number a string of decimal digits writes, most significant digit first
Decimal(str) ==
    IF str = <<>> THEN 0
    ELSE (CHOOSE d \in 0..9 : Digits[d + 1] = str[1]) * Pow10(Len(str) - 1) + Decimal(Tail(str))

\* the line without the newline that ends it, if one does
Stripped(line) ==
    IF line # <<>> /\ line[Len(line)] = "\n" THEN SubSeq(line, 1, Len(line) - 1) ELSE line

\* str is HH:MM:SS,mmm or HH:MM:SS.mmm
StampShaped(str) ==
    /\ Len(str) = 12
    /\ {str[3], str[6]} = {":"}
    /\ str[9] \in {",", "."}
    /\ {str[i] : i \in (1..12) \ {3, 6, 9}} \subseteq DecimalDigits

\* the Timestamp a stamp writes
StampValue(str) ==
    Timestamp(Decimal(SubSeq(str, 1, 2)), Decimal(SubSeq(str, 4, 5)),
              Decimal(SubSeq(str, 7, 8)), Decimal(SubSeq(str, 10, 12)))

\* the line is two stamps with " --> " between them, and whitespace after
RangeShaped(line) ==
    /\ Len(line) >= 29
    /\ StampShaped(SubSeq(line, 1, 12))
    /\ SubSeq(line, 13, 17) = Arrow
    /\ StampShaped(SubSeq(line, 18, 29))
    /\ {line[i] : i \in 30..Len(line)} \subseteq Whitespace

\* the kind and value the rules give a line
Rule(line) ==
    IF {line[i] : i \in 1..Len(line)} \subseteq Whitespace
    THEN [kind |-> "EMPTY", value |-> NoneRef]
    ELSE IF /\ Len(line) >= 2
            /\ line[Len(line)] = "\n"
            /\ {line[i] : i \in 1..(Len(line) - 1)} \subseteq DecimalDigits
    THEN [kind |-> "ID", value |-> Decimal(Stripped(line))]
    ELSE IF RangeShaped(line)
    THEN [kind |-> "TIME",
          value |-> <<StampValue(SubSeq(line, 1, 12)), StampValue(SubSeq(line, 18, 29))>>]
    ELSE [kind |-> "TEXT", value |-> Stripped(line)]

\* C32: parse_line gives every line the kind and value of the first rule the
\* line matches: Empty and no value for a whitespace-only line, Id and the
\* number for digits and a newline, TimeRange and the two Timestamps for a
\* time range, Text and the line without its newline for any other line.
C32_FirstMatchingRule ==
    classified.result.exc # "not called" =>
        /\ classified.result.exc = "none"
        /\ classified.result.line_type = Rule(classified.line).kind
        /\ classified.result.line_parsed = Rule(classified.line).value

\* C33: while and after parse_file runs, every element of the collection is
\* a cue with an id other than 0 and a start and an end, and every event of
\* the log names such a cue: None is never inserted nor logged.
C33_OnlyBuiltCues ==
    /\ \A i \in 1..Len(blocks) :
          /\ blocks[i] # NoneRef
          /\ heap[blocks[i]].id # 0
          /\ heap[blocks[i]].starttime # NoneTime
          /\ heap[blocks[i]].endtime # NoneTime
    /\ \A i \in 1..Len(mementos) : mementos[i].block # NoneRef

\* C37: when parse_file returns, the collection holds as many cues as the
\* file has id lines (each of which the loop took as the opening of a block,
\* or it would have raised), wherever the file ends.
C37_NoBlockDropped ==
    pstat.status = "done" => Len(blocks) = Len(IdLines)

\* the block opened by the id line at position p has its time line and its
\* text, and the blank line that ends it comes before the last line read
Finalized(p) ==
    /\ p + 3 <= Len(lines) - 1
    /\ Kind(p + 1) = "TIME"
    /\ Kind(p + 2) = "TEXT"
    /\ LastText(p + 2) + 1 <= Len(lines) - 1
    /\ Kind(LastText(p + 2) + 1) = "EMPTY"

\* C38: when parse_file raises at a line, the collection holds the cues of
\* the blocks that ended before that line, in file order, each with the id,
\* start, end and text of its block, and the log holds one CueAdded event for
\* each of them, in that order, and nothing else.
C38_AbortKeepsFinalized ==
    pstat.status = "raised" =>
        LET fin == SelectSeq(IdLines, Finalized)
        IN /\ Len(blocks) = Len(fin)
           /\ \A n \in 1..Len(blocks) :
                 blocks[n] # NoneRef /\ heap[blocks[n]] = CueAt(fin[n])
           /\ mementos = [n \in 1..Len(blocks) |-> BlockAddedEvent(blocks[n])]

-----------------------------------------------------------------------------
(* Further properties of Timestamp *)

\* C34: a + b returns the Timestamp of the sum of the totals of a and b when
\* that sum is at most 99:59:59.999, and raises InvalidTimeException exactly
\* when it is more.
C34_AddIsSum ==
    tlast.op = "__add__" =>
        LET a == tlast.before
            b == tlast.arg
        IN IF TotalMs(a) + TotalMs(b) <= MaxTotalMs
           THEN /\ tlast.exc = "none"
                /\ InRange(tlast.ret)
                /\ TotalMs(tlast.ret) = TotalMs(a) + TotalMs(b)
           ELSE tlast.exc = "InvalidTimeException"

\* 00:00:00.001 has been added to a Timestamp with 59 seconds and 999
\* milliseconds, which carries into the minutes
C34_Witness ==
    /\ tlast.op = "__add__"
    /\ tlast.exc = "none"
    /\ tlast.arg = Timestamp(0, 0, 0, 1)
    /\ tlast.before.seconds = 59
    /\ tlast.before.milliseconds = 999

C36_UndoRestoresPosition ==
    [][(Undo /\ last.op = "remove_block" /\ Len(mementos) = last.nlog + 1)
           => blocks' = last.held]_vars

-----------------------------------------------------------------------------
(* Properties of the publisher *)

\* subscriber s is registered when call k is made: it has been added before,
\* and not removed since
Registered(s, k) ==
    \E j \in 1..(k - 1) :
        /\ pubhist[j].op = "add_subscriber" /\ pubhist[j].arg = s
        /\ \A i \in (j + 1)..(k - 1) :
              ~(pubhist[i].op = "remove_subscriber" /\ pubhist[i].arg = s)

\* the positions in the history of the publish calls made while s was registered
Deliveries(s) ==
    SelectSeq([k \in 1..Len(pubhist) |-> k],
              LAMBDA k : pubhist[k].op = "publish" /\ Registered(s, k))

\* C23: every subscriber has been called once, with the event, for each
\* publish made while it was registered (however often it was added), and for
\* no other.
C23_PublishCallsEachOnce ==
    \A s \in Subs :
        received[s] = [n \in 1..Len(Deliveries(s)) |-> pubhist[Deliveries(s)[n]].arg]

\* s1 has been added twice, s2 added and removed, and an event published
C23_Witness ==
    /\ Len(pubhist) = 5
    /\ pubhist[1].op = "add_subscriber" /\ pubhist[1].arg = "s1"
    /\ pubhist[2].op = "add_subscriber" /\ pubhist[2].arg = "s1"
    /\ pubhist[3].op = "add_subscriber" /\ pubhist[3].arg = "s2"
    /\ pubhist[4].op = "remove_subscriber" /\ pubhist[4].arg = "s2"
    /\ pubhist[5].op = "publish"
    /\ received["s1"] = <<pubhist[5].arg>>
    /\ received["s2"] = <<>>

\* C24: remove_subscriber(s) raises and leaves the set as it was when s is not
\* in it, and takes s and nothing else out of the set when it is.
C24_RemoveSubscriber ==
    \A k \in 1..Len(pubhist) :
        pubhist[k].op = "remove_subscriber" =>
            LET after == IF k = Len(pubhist) THEN subscribers ELSE pubhist[k + 1].before
            IN IF pubhist[k].arg \in pubhist[k].before
               THEN pubhist[k].exc = "none" /\ after = pubhist[k].before \ {pubhist[k].arg}
               ELSE pubhist[k].exc = "KeyError" /\ after = pubhist[k].before

\* a subscriber that had been removed already has been removed again
C24_Witness ==
    /\ Len(pubhist) >= 3
    /\ pubhist[Len(pubhist)].op = "remove_subscriber"
    /\ pubhist[Len(pubhist)].exc = "KeyError"
    /\ pubhist[Len(pubhist) - 1].op = "remove_subscriber"
    /\ pubhist[Len(pubhist) - 1].arg = pubhist[Len(pubhist)].arg
    /\ pubhist[Len(pubhist) - 1].exc = "none"

====
